---- MODULE Spec2Model ----
(***************************************************************************)
(* Global shortcuts of the application window (src-tauri/src/shortcuts.rs): *)
(* registration of the four fixed key chords, the four hotkey handlers,    *)
(* the WindowVisibility flag and its mutex, and the query command           *)
(* check_shortcuts_registered.                                              *)
(*                                                                          *)
(* The window host and the OS hotkey service are outside the file; they are *)
(* modelled at the boundary the file uses: every fallible call returns Ok   *)
(* or Err nondeterministically, and a call on a destroyed window fails.     *)
(* Each running handler invocation is a process of Procs; its calls so far  *)
(* are recorded in calls[p], window.emit among them (its Err branch only    *)
(* logs).                                                                   *)
(***************************************************************************)
EXTENDS Naturals, Sequences, FiniteSets

VARIABLES
    platform,      \* target_os of the build: "windows", "macos" or "linux"
    badParse,      \* 0, or the index of the fixed chord string that does not parse
    windowExists,  \* app.get_webview_window("main") is Some
    osVisible,     \* the window is visible according to the OS
    is_hidden,     \* WindowVisibility.is_hidden (the value inside the Mutex)
    lockHolder,    \* the process holding the is_hidden MutexGuard, 0 when free
    handlers,      \* chords with a handler attached by on_shortcut
    registered,    \* chords the OS service reports as registered
    setupPc,       \* position of setup_global_shortcuts
    setupResult,   \* "none" while not returned, "Ok", or the error message
    checkResult,   \* value returned by check_shortcuts_registered, "none" if no call is pending
    pc,            \* position of each handler invocation
    kind,          \* the shortcut each running invocation handles
    calls,         \* the calls each running invocation has made, with results
    visibilityEvents, \* payloads of the toggle-window-visibility events emitted, in order
    applied,       \* how many of them the listener has applied to the window
    nEvents,       \* number of key events delivered
    lastEvent,     \* state of the key event delivered last
    clean,         \* every event so far was a toggle press on an existing window, no call failed
    activationPolicy, \* macOS activation policy of the app: "Regular" or "Accessory"
    skipTaskbar,   \* the window's skip-taskbar flag
    alwaysOnTop,   \* the window's always-on-top flag
    osRefuses,     \* the OS currently rejects the chrome calls
    lastCmd,       \* the last chrome command: name, argument, returned value, OS calls made
    nCmds          \* number of chrome commands called

vars == <<platform, badParse, windowExists, osVisible, is_hidden,
          lockHolder, handlers, registered, setupPc, setupResult, checkResult,
          pc, kind, calls, visibilityEvents, applied, nEvents, lastEvent, clean,
          activationPolicy, skipTaskbar, alwaysOnTop, osRefuses, lastCmd, nCmds>>

\* Bounds of the model.
NumProcs == 2
MaxEvents == 2
MaxCmds == 3

Procs == 1..NumProcs
Platforms == {"windows", "macos", "linux"}
ShortcutStates == {"Pressed", "Released"}

\* The four actions, in the order setup and check go through them.
Shortcuts == <<"toggle", "audio", "screenshot", "systemAudio">>
NumShortcuts == Len(Shortcuts)
AllShortcuts == {Shortcuts[i] : i \in 1..NumShortcuts}

DEFAULT_TOGGLE_SHORTCUT(os) == IF os = "macos" THEN "cmd+backslash" ELSE "ctrl+backslash"
DEFAULT_AUDIO_SHORTCUT(os) == IF os = "macos" THEN "cmd+shift+a" ELSE "ctrl+shift+a"
DEFAULT_SCREENSHOT_SHORTCUT(os) == IF os = "macos" THEN "cmd+shift+s" ELSE "ctrl+shift+s"
DEFAULT_SYSTEM_AUDIO_SHORTCUT(os) == IF os = "macos" THEN "cmd+shift+m" ELSE "ctrl+shift+m"

\* get_shortcuts(): the four fixed chord strings by name.
get_shortcuts(os) ==
    [toggle |-> DEFAULT_TOGGLE_SHORTCUT(os),
     audio |-> DEFAULT_AUDIO_SHORTCUT(os),
     screenshot |-> DEFAULT_SCREENSHOT_SHORTCUT(os),
     systemAudio |-> DEFAULT_SYSTEM_AUDIO_SHORTCUT(os)]

\* str.parse::<Shortcut>() of the i-th fixed string succeeds.
ParseOk(i) == badParse # i

BoolStr(b) == IF b THEN "true" ELSE "false"
Call(op, res, arg) == [op |-> op, res |-> res, arg |-> arg]
Last(s) == s[Len(s)]
OkErr(ok) == IF ok THEN "Ok" ELSE "Err"

\* Results a fallible window call can have: Err always, Ok only on a live window.
Outcomes == IF windowExists THEN BOOLEAN ELSE {FALSE}

\* The window as the OS has it: "gone", or whether it is visible.
WindowNow == IF windowExists THEN BoolStr(osVisible) ELSE "gone"

\* No chrome command has been called yet.
NoCmd == [name |-> "none", arg |-> FALSE, result |-> "none", calls |-> <<>>,
          exists |-> TRUE, refused |-> FALSE, prev |-> <<"none", FALSE, "none">>]

Idle == \A p \in Procs : pc[p] = "idle"

TypeOK ==
    /\ platform \in Platforms
    /\ badParse \in 0..NumShortcuts
    /\ windowExists \in BOOLEAN /\ osVisible \in BOOLEAN
    /\ is_hidden \in BOOLEAN
    /\ lockHolder \in {0} \cup Procs
    /\ handlers \subseteq AllShortcuts /\ registered \subseteq AllShortcuts
    /\ setupPc \in 0..(2 * NumShortcuts + 1)
    /\ nEvents \in 0..MaxEvents
    /\ lastEvent \in ShortcutStates \cup {"none"}
    /\ clean \in BOOLEAN
    /\ Len(visibilityEvents) <= MaxEvents
    /\ applied \in 0..Len(visibilityEvents)
    /\ activationPolicy \in {"Regular", "Accessory"}
    /\ skipTaskbar \in BOOLEAN /\ alwaysOnTop \in BOOLEAN /\ osRefuses \in BOOLEAN
    /\ nCmds \in 0..MaxCmds

Init ==
    /\ platform \in Platforms
    /\ badParse \in 0..NumShortcuts
    /\ windowExists = TRUE
    /\ osVisible = TRUE
    /\ is_hidden = FALSE
    /\ lockHolder = 0
    /\ handlers = {}
    /\ registered = {}
    /\ setupPc = 0
    /\ setupResult = "none"
    /\ checkResult = "none"
    /\ pc = [p \in Procs |-> "idle"]
    /\ kind = [p \in Procs |-> "none"]
    /\ calls = [p \in Procs |-> <<>>]
    /\ visibilityEvents = <<>>
    /\ applied = 0
    /\ nEvents = 0
    /\ lastEvent = "none"
    /\ clean = TRUE
    /\ activationPolicy = "Regular"
    /\ skipTaskbar = FALSE
    /\ alwaysOnTop = FALSE
    /\ osRefuses = FALSE
    /\ lastCmd = NoCmd
    /\ nCmds = 0

winVars == <<windowExists, osVisible>>
regVars == <<handlers, registered, setupPc, setupResult, checkResult>>
procVars == <<pc, kind, calls>>
buildVars == <<platform, badParse>>
chromeVars == <<activationPolicy, skipTaskbar, alwaysOnTop, osRefuses, lastCmd, nCmds>>
handlerVars == <<is_hidden, lockHolder, procVars, visibilityEvents, applied, nEvents, lastEvent, clean>>

(***************************************************************************)
(* setup_global_shortcuts                                                    *)
(***************************************************************************)
ShortcutLabel(i) ==
    CASE i = 1 -> "toggle" [] i = 2 -> "audio" [] i = 3 -> "screenshot"
      [] OTHER -> "system audio"

RegisterError(i) == "Failed to register " \o ShortcutLabel(i) \o " shortcut"

\* setup_parse without the `?`: a chord that does not parse is passed over.
setup_parse_IgnoresFailure ==
    /\ setupPc = 0 /\ setupResult = "none"
    /\ setupPc' = 1 /\ setupResult' = setupResult
    /\ UNCHANGED <<buildVars, chromeVars, winVars, is_hidden, lockHolder, handlers, registered,
                   checkResult, procVars, visibilityEvents, applied, nEvents, lastEvent, clean>>

\* Lines 36-39: the four parses; the first failing one returns through `?`.
setup_parse ==
    /\ setupPc = 0 /\ setupResult = "none"
    /\ IF badParse = 0
         THEN setupPc' = 1 /\ setupResult' = setupResult
         ELSE setupPc' = setupPc /\ setupResult' = "parse error"
    /\ UNCHANGED <<buildVars, chromeVars, winVars, is_hidden, lockHolder, handlers, registered,
                   checkResult, procVars, visibilityEvents, applied, nEvents, lastEvent, clean>>

\* Lines 42-75: on_shortcut for the i-th chord attaches its handler or fails.
setup_on_shortcut ==
    /\ setupPc \in 1..NumShortcuts /\ setupResult = "none"
    /\ \E ok \in BOOLEAN :
         IF ok
           THEN /\ handlers' = handlers \cup {Shortcuts[setupPc]}
                /\ setupPc' = setupPc + 1
                /\ setupResult' = setupResult
           ELSE /\ setupResult' = RegisterError(setupPc)
                /\ UNCHANGED <<handlers, setupPc>>
    /\ UNCHANGED <<buildVars, chromeVars, winVars, is_hidden, lockHolder, registered,
                   checkResult, procVars, visibilityEvents, applied, nEvents, lastEvent, clean>>

\* What register(chord) leaves registered when the OS accepts it.
RegisterOk(reg, s) == reg \cup {s}

\* setup_register without the `?`: a refused registration is skipped over.
setup_register_IgnoresError ==
    /\ setupPc \in (NumShortcuts + 1)..(2 * NumShortcuts) /\ setupResult = "none"
    /\ \E ok \in BOOLEAN :
         /\ registered' = IF ok THEN RegisterOk(registered, Shortcuts[setupPc - NumShortcuts])
                                ELSE registered
         /\ setupPc' = setupPc + 1
         /\ setupResult' = IF setupPc = 2 * NumShortcuts THEN "Ok" ELSE setupResult
    /\ UNCHANGED <<buildVars, chromeVars, winVars, is_hidden, lockHolder, handlers,
                   checkResult, procVars, visibilityEvents, applied, nEvents, lastEvent, clean>>

\* setup_register undoing the earlier registrations when one is refused.
setup_register_RollsBack ==
    /\ setupPc \in (NumShortcuts + 1)..(2 * NumShortcuts) /\ setupResult = "none"
    /\ \E ok \in BOOLEAN :
         IF ok
           THEN /\ registered' = RegisterOk(registered, Shortcuts[setupPc - NumShortcuts])
                /\ setupPc' = setupPc + 1
                /\ setupResult' = IF setupPc = 2 * NumShortcuts THEN "Ok" ELSE setupResult
           ELSE /\ setupResult' = RegisterError(setupPc - NumShortcuts)
                /\ registered' = {}
                /\ UNCHANGED setupPc
    /\ UNCHANGED <<buildVars, chromeVars, winVars, is_hidden, lockHolder, handlers,
                   checkResult, procVars, visibilityEvents, applied, nEvents, lastEvent, clean>>

\* Lines 78-89: register for the i-th chord; lines 91: Ok(()) after the fourth.
setup_register ==
    /\ setupPc \in (NumShortcuts + 1)..(2 * NumShortcuts) /\ setupResult = "none"
    /\ \E ok \in BOOLEAN :
         IF ok
           THEN /\ registered' = RegisterOk(registered, Shortcuts[setupPc - NumShortcuts])
                /\ setupPc' = setupPc + 1
                /\ setupResult' = IF setupPc = 2 * NumShortcuts THEN "Ok" ELSE setupResult
           ELSE /\ setupResult' = RegisterError(setupPc - NumShortcuts)
                /\ UNCHANGED <<registered, setupPc>>
    /\ UNCHANGED <<buildVars, chromeVars, winVars, is_hidden, lockHolder, handlers,
                   checkResult, procVars, visibilityEvents, applied, nEvents, lastEvent, clean>>

setup_global_shortcuts == setup_parse \/ setup_on_shortcut \/ setup_register

(***************************************************************************)
(* check_shortcuts_registered                                               *)
(***************************************************************************)
\* app.global_shortcut().is_registered(shortcut)
IsRegistered(reg, s) == s \in reg

\* The loop stopping one string short.
RECURSIVE CheckFrom_SkipsLast(_, _)
CheckFrom_SkipsLast(i, reg) ==
    IF i >= NumShortcuts THEN "Ok(true)"
    ELSE IF ParseOk(i)
           THEN IF IsRegistered(reg, Shortcuts[i])
                  THEN CheckFrom_SkipsLast(i + 1, reg)
                  ELSE "Ok(false)"
           ELSE "Err(Failed to parse shortcut)"

\* Lines 214-225: the loop over the four strings, from the i-th on.
RECURSIVE CheckFrom(_, _)
CheckFrom(i, reg) ==
    IF i > NumShortcuts THEN "Ok(true)"
    ELSE IF ParseOk(i)
           THEN IF IsRegistered(reg, Shortcuts[i])
                  THEN CheckFrom(i + 1, reg)
                  ELSE "Ok(false)"
           ELSE "Err(Failed to parse shortcut)"

\* The command reads only the registrations, which no handler writes: it is
\* explored before the key events rather than between every two of their steps.
check_shortcuts_registered ==
    /\ checkResult = "none" /\ nEvents = 0
    /\ checkResult' = CheckFrom(1, registered)
    /\ UNCHANGED <<buildVars, chromeVars, winVars, is_hidden, lockHolder, handlers, registered,
                   setupPc, setupResult, procVars, visibilityEvents, applied, nEvents, lastEvent, clean>>

\* The caller of the command takes the returned value.
CommandReturn ==
    /\ checkResult # "none"
    /\ checkResult' = "none"
    /\ UNCHANGED <<buildVars, chromeVars, winVars, is_hidden, lockHolder, handlers, registered,
                   setupPc, setupResult, procVars, visibilityEvents, applied, nEvents, lastEvent, clean>>

(***************************************************************************)
(* Calls on the window, as the handlers use them.  Each appends the call    *)
(* and its result to calls[p] and moves p to the position `next` gives.     *)
(***************************************************************************)
Step(p, call, next) ==
    /\ calls' = [calls EXCEPT ![p] = Append(@, call)]
    /\ pc' = [pc EXCEPT ![p] = next]
    /\ kind' = kind

\* window.is_visible(): Ok(the OS visibility) or Err.  The record of the call
\* keeps what the window was at the call ("gone" once destroyed), whatever
\* was returned.
IsVisible(ok) == IF ok THEN "Ok(" \o BoolStr(osVisible) \o ")" ELSE "Err"

IsVisibleCall(p, ok, next) ==
    /\ ok \in Outcomes
    /\ Step(p, Call("is_visible", IsVisible(ok), WindowNow), next)
    /\ clean' = (clean /\ ok)
    /\ UNCHANGED <<winVars, visibilityEvents, applied>>

\* window.show(): on Ok the window is visible.
ShowCall(p, ok, next) ==
    /\ ok \in Outcomes
    /\ Step(p, Call("show", OkErr(ok), ""), next)
    /\ osVisible' = (osVisible \/ ok)
    /\ clean' = (clean /\ ok)
    /\ UNCHANGED <<windowExists, visibilityEvents, applied>>

\* window.hide(): on Ok the window is not visible.
HideCall(p, ok, next) ==
    /\ ok \in Outcomes
    /\ Step(p, Call("hide", OkErr(ok), ""), next)
    /\ osVisible' = (osVisible /\ ~ok)
    /\ clean' = (clean /\ ok)
    /\ UNCHANGED <<windowExists, visibilityEvents, applied>>

\* window.set_focus(): the result is all the handlers see of it.
SetFocusCall(p, ok, next) ==
    /\ ok \in Outcomes
    /\ Step(p, Call("set_focus", OkErr(ok), ""), next)
    /\ clean' = (clean /\ ok)
    /\ UNCHANGED <<winVars, visibilityEvents, applied>>

\* window.emit(name, payload); the payloads of toggle-window-visibility are kept in order.
EmitCall(p, name, payload, next) ==
    /\ Step(p, Call("emit", name, payload), next)
    /\ visibilityEvents' = IF name = "toggle-window-visibility"
                             THEN Append(visibilityEvents, payload)
                             ELSE visibilityEvents
    /\ UNCHANGED <<winVars, applied, clean>>

(***************************************************************************)
(* handle_toggle_window                                                     *)
(***************************************************************************)
\* The flag written back unchanged.
FlipHidden_Keep(b) == b

\* Line 105: *is_hidden = !*is_hidden
FlipHidden(b) == ~b

\* The handler without the let-else on the window.
ToggleEntry_NoWindowCheck(exists, os) ==
    IF os = "windows" THEN "lock" ELSE "query"

\* Lines 97-99, and the cfg that selects the body.
ToggleEntry(exists, os) ==
    IF ~exists THEN "end" ELSE IF os = "windows" THEN "lock" ELSE "query"

\* Line 104: state.is_hidden.lock(); the guard lives to the end of the block.
\* A handler that flips the flag without taking the Mutex.
ToggleLock_NoMutex(p) ==
    /\ pc[p] = "lock"
    /\ UNCHANGED lockHolder
    /\ Step(p, Call("lock", "Ok", ""), "flip")
    /\ UNCHANGED <<is_hidden, winVars, visibilityEvents, applied, clean>>

ToggleLock(p) ==
    /\ pc[p] = "lock" /\ lockHolder = 0
    /\ lockHolder' = p
    /\ Step(p, Call("lock", "Ok", ""), "flip")
    /\ UNCHANGED <<is_hidden, winVars, visibilityEvents, applied, clean>>

\* Line 105, through the guard.
ToggleFlip(p) ==
    /\ pc[p] = "flip"
    /\ is_hidden' = FlipHidden(is_hidden)
    /\ Step(p, Call("flip", BoolStr(is_hidden), ""), "emit")
    /\ UNCHANGED <<lockHolder, winVars, visibilityEvents, applied, clean>>

\* Lines 107-110: emit the new value, then return.
ToggleEmitVisibility(p) ==
    /\ pc[p] = "emit" /\ platform = "windows"
    /\ EmitCall(p, "toggle-window-visibility", BoolStr(is_hidden), "end")
    /\ UNCHANGED <<is_hidden, lockHolder>>

\* A failed query treated as "not visible".
ToggleAfterQuery_ErrShows(r) ==
    IF r = "Ok(true)" THEN "hide" ELSE "show"

\* The two Ok arms of the match exchanged.
ToggleAfterQuery_Swapped(r) ==
    IF r = "Ok(true)" THEN "show" ELSE IF r = "Ok(false)" THEN "hide" ELSE "end"

\* Lines 114-115, 121, 136: the match on is_visible().
ToggleAfterQuery(r) ==
    IF r = "Ok(true)" THEN "hide" ELSE IF r = "Ok(false)" THEN "show" ELSE "end"

ToggleQuery(p) ==
    /\ pc[p] = "query"
    /\ \E ok \in BOOLEAN : IsVisibleCall(p, ok, ToggleAfterQuery(IsVisible(ok)))
    /\ UNCHANGED <<is_hidden, lockHolder>>

\* Lines 117-119: a failed hide is logged.
ToggleAfterHide(ok) == "end"

ToggleHide(p) ==
    /\ pc[p] = "hide"
    /\ \E ok \in BOOLEAN : HideCall(p, ok, ToggleAfterHide(ok))
    /\ UNCHANGED <<is_hidden, lockHolder>>

\* A handler that returns when show fails.
ToggleAfterShow_ReturnsOnError(ok) == IF ok THEN "focus" ELSE "end"

\* Lines 123-125: a failed show is logged, the handler goes on.
ToggleAfterShow(ok) == "focus"

ToggleShow(p) ==
    /\ pc[p] = "show"
    /\ \E ok \in BOOLEAN : ShowCall(p, ok, ToggleAfterShow(ok))
    /\ UNCHANGED <<is_hidden, lockHolder>>

\* Lines 127-129: a failed focus is logged, the handler goes on.
ToggleAfterFocus(ok) == "emit"

ToggleFocus(p) ==
    /\ pc[p] = "focus"
    /\ \E ok \in BOOLEAN : SetFocusCall(p, ok, ToggleAfterFocus(ok))
    /\ UNCHANGED <<is_hidden, lockHolder>>

\* Lines 132-134.
ToggleEmitFocus(p) ==
    /\ pc[p] = "emit" /\ platform # "windows"
    /\ EmitCall(p, "focus-text-input", "{}", "end")
    /\ UNCHANGED <<is_hidden, lockHolder>>

handle_toggle_window(p) ==
    /\ kind[p] = "toggle"
    /\ \/ ToggleLock(p) \/ ToggleFlip(p) \/ ToggleEmitVisibility(p)
       \/ ToggleQuery(p) \/ ToggleHide(p) \/ ToggleShow(p) \/ ToggleFocus(p)
       \/ ToggleEmitFocus(p)
    /\ UNCHANGED <<buildVars, chromeVars, regVars, nEvents, lastEvent>>

(***************************************************************************)
(* handle_audio_shortcut                                                    *)
(***************************************************************************)
\* Line 144.
AudioEntry(exists) == IF exists THEN "query" ELSE "end"

\* Line 146: `if let Ok(false)`; any other result goes to the emit.
AudioAfterQuery(r) == IF r = "Ok(false)" THEN "show" ELSE "emit"

\* A failed show that does not return.
AudioAfterShow_Continue(ok) == "focus"

\* Lines 147-149: a failed show returns.
AudioAfterShow(ok) == IF ok THEN "focus" ELSE "end"

\* Lines 150-152: a failed focus is logged, the handler goes on.
AudioAfterFocus(ok) == "emit"

handle_audio_shortcut(p) ==
    /\ kind[p] = "audio"
    /\ \/ pc[p] = "query" /\ \E ok \in BOOLEAN : IsVisibleCall(p, ok, AudioAfterQuery(IsVisible(ok)))
       \/ pc[p] = "show" /\ \E ok \in BOOLEAN : ShowCall(p, ok, AudioAfterShow(ok))
       \/ pc[p] = "focus" /\ \E ok \in BOOLEAN : SetFocusCall(p, ok, AudioAfterFocus(ok))
       \/ pc[p] = "emit" /\ EmitCall(p, "start-audio-recording", "{}", "end")
    /\ UNCHANGED <<buildVars, chromeVars, regVars, is_hidden, lockHolder, nEvents, lastEvent>>

(***************************************************************************)
(* handle_screenshot_shortcut                                               *)
(***************************************************************************)
\* Line 164.
ScreenshotEntry(exists) == IF exists THEN "emit" ELSE "end"

\* The handler with the "ensure window is visible" block of its neighbours.
handle_screenshot_shortcut_ShowsWindow(p) ==
    /\ kind[p] = "screenshot"
    /\ pc[p] = "emit"
    /\ Step(p, Call("emit", "trigger-screenshot", "{}"), "end")
    /\ osVisible' = TRUE
    /\ UNCHANGED <<buildVars, chromeVars, regVars, windowExists, is_hidden, lockHolder,
                   visibilityEvents, applied, nEvents, lastEvent, clean>>

\* Lines 164-169.
handle_screenshot_shortcut(p) ==
    /\ kind[p] = "screenshot"
    /\ pc[p] = "emit" /\ EmitCall(p, "trigger-screenshot", "{}", "end")
    /\ UNCHANGED <<buildVars, chromeVars, regVars, is_hidden, lockHolder, nEvents, lastEvent>>

(***************************************************************************)
(* handle_system_audio_shortcut                                             *)
(***************************************************************************)
\* Line 174.
SystemAudioEntry(exists) == IF exists THEN "query" ELSE "end"

\* Line 176.
SystemAudioAfterQuery(r) == IF r = "Ok(false)" THEN "show" ELSE "emit"

\* A failed show that is logged without returning.
SystemAudioAfterShow_Continue(ok) == "focus"

\* Lines 177-180: a failed show is logged and returns.
SystemAudioAfterShow(ok) == IF ok THEN "focus" ELSE "end"

\* Lines 181-183.
SystemAudioAfterFocus(ok) == "emit"

handle_system_audio_shortcut(p) ==
    /\ kind[p] = "systemAudio"
    /\ \/ pc[p] = "query" /\ \E ok \in BOOLEAN : IsVisibleCall(p, ok, SystemAudioAfterQuery(IsVisible(ok)))
       \/ pc[p] = "show" /\ \E ok \in BOOLEAN : ShowCall(p, ok, SystemAudioAfterShow(ok))
       \/ pc[p] = "focus" /\ \E ok \in BOOLEAN : SetFocusCall(p, ok, SystemAudioAfterFocus(ok))
       \/ pc[p] = "emit" /\ EmitCall(p, "toggle-system-audio", "{}", "end")
    /\ UNCHANGED <<buildVars, chromeVars, regVars, is_hidden, lockHolder, nEvents, lastEvent>>

(***************************************************************************)
(* Delivery of key events to the closures attached in setup, and the return *)
(* of a handler.                                                            *)
(***************************************************************************)
\* Lines 44, 53, 62, 71: event.state() == ShortcutState::Pressed
\* A handler that runs its action for every state of the event.
Dispatches_Always(st) == st \in ShortcutStates

Dispatches(st) == st = "Pressed"

\* The first position of the handler of shortcut k (its get_webview_window).
Entry(k) ==
    CASE k = "toggle" -> ToggleEntry(windowExists, platform)
      [] k = "audio" -> AudioEntry(windowExists)
      [] k = "screenshot" -> ScreenshotEntry(windowExists)
      [] OTHER -> SystemAudioEntry(windowExists)

\* The OS service calls the closure of a registered chord with a key event.
\* Events are delivered once setup has returned; p is the first free invocation.
KeyEvent(p, k, st) ==
    /\ pc[p] = "idle" /\ \A q \in 1..(p - 1) : pc[q] # "idle"
    /\ setupResult # "none"
    /\ k \in handlers \cap registered
    /\ nEvents < MaxEvents
    /\ nEvents' = nEvents + 1
    /\ lastEvent' = st
    /\ IF Dispatches(st)
         THEN /\ pc' = [pc EXCEPT ![p] = Entry(k)]
              /\ kind' = [kind EXCEPT ![p] = k]
         ELSE UNCHANGED <<pc, kind>>
    /\ clean' = (clean /\ st = "Pressed" /\ k = "toggle" /\ windowExists)
    /\ UNCHANGED <<buildVars, chromeVars, winVars, regVars, is_hidden, lockHolder, calls,
                   visibilityEvents, applied>>

\* The handler returns; a MutexGuard it holds is dropped.
HandlerReturn(p) ==
    /\ pc[p] = "end"
    /\ pc' = [pc EXCEPT ![p] = "idle"]
    /\ kind' = [kind EXCEPT ![p] = "none"]
    /\ calls' = [calls EXCEPT ![p] = <<>>]
    /\ lockHolder' = IF lockHolder = p THEN 0 ELSE lockHolder
    /\ UNCHANGED <<buildVars, chromeVars, winVars, regVars, is_hidden, visibilityEvents, applied,
                   nEvents, lastEvent, clean>>

(***************************************************************************)
(* The surroundings: the window can be destroyed; on the tracked platform   *)
(* the listener of toggle-window-visibility maps or unmaps the window.      *)
(***************************************************************************)
DestroyWindow ==
    /\ windowExists
    /\ windowExists' = FALSE
    /\ osVisible' = FALSE
    /\ clean' = FALSE
    /\ UNCHANGED <<buildVars, chromeVars, regVars, procVars, is_hidden, lockHolder, visibilityEvents,
                   applied, nEvents, lastEvent>>

ListenerApplyVisibility ==
    /\ applied < Len(visibilityEvents)
    /\ applied' = applied + 1
    /\ osVisible' = IF windowExists
                      THEN visibilityEvents[applied + 1] = "false"
                      ELSE osVisible
    /\ UNCHANGED <<buildVars, chromeVars, regVars, procVars, windowExists, is_hidden, lockHolder,
                   visibilityEvents, nEvents, lastEvent, clean>>

(***************************************************************************)
(* set_app_icon_visibility and set_always_on_top.  An OS call of the chrome *)
(* succeeds unless the OS refuses; a refusal changes nothing.               *)
(***************************************************************************)
Cmd(name, arg, result, oscalls) ==
    [name |-> name, arg |-> arg, result |-> result, calls |-> oscalls,
     exists |-> windowExists, refused |-> osRefuses,
     prev |-> <<lastCmd.name, lastCmd.arg, lastCmd.result>>]

\* Lines 234-238.
PolicyFor(visible) == IF visible THEN "Regular" ELSE "Accessory"

\* Lines 250, 262: set_skip_taskbar(!visible).
SkipTaskbarFor(visible) == ~visible

\* Lines 231-244: macOS sets the activation policy of the app.
IconMacos(visible) ==
    /\ platform = "macos"
    /\ activationPolicy' = IF osRefuses THEN activationPolicy ELSE PolicyFor(visible)
    /\ lastCmd' = Cmd("set_app_icon_visibility", visible,
                      IF osRefuses THEN "Err(Failed to set activation policy)" ELSE "Ok",
                      <<Call("set_activation_policy", OkErr(~osRefuses), PolicyFor(visible))>>)
    /\ UNCHANGED skipTaskbar

\* A variant that flips the skip-taskbar flag instead of setting it.
IconTaskbar_Toggles(visible) ==
    /\ platform \in {"windows", "linux"}
    /\ skipTaskbar' = IF windowExists /\ ~osRefuses /\ ~visible THEN ~skipTaskbar ELSE skipTaskbar
    /\ lastCmd' = Cmd("set_app_icon_visibility", visible,
                      IF windowExists /\ osRefuses
                        THEN "Err(Failed to set taskbar visibility)" ELSE "Ok", <<>>)
    /\ UNCHANGED activationPolicy

\* Lines 246-256 and 258-268: Windows and Linux set the skip-taskbar flag of
\* the window; a missing window is logged and the command returns Ok.
IconTaskbar(visible) ==
    /\ platform \in {"windows", "linux"}
    /\ IF windowExists
         THEN /\ skipTaskbar' = IF osRefuses THEN skipTaskbar ELSE SkipTaskbarFor(visible)
              /\ lastCmd' = Cmd("set_app_icon_visibility", visible,
                                IF osRefuses
                                  THEN IF platform = "windows"
                                         THEN "Err(Failed to set taskbar visibility)"
                                         ELSE "Err(Failed to set panel visibility)"
                                  ELSE "Ok",
                                <<Call("set_skip_taskbar", OkErr(~osRefuses),
                                       BoolStr(SkipTaskbarFor(visible)))>>)
         ELSE /\ skipTaskbar' = skipTaskbar
              /\ lastCmd' = Cmd("set_app_icon_visibility", visible, "Ok", <<>>)
    /\ UNCHANGED activationPolicy

set_app_icon_visibility(visible) ==
    /\ nCmds < MaxCmds
    /\ nCmds' = nCmds + 1
    /\ IconMacos(visible) \/ IconTaskbar(visible)
    /\ UNCHANGED <<buildVars, winVars, regVars, handlerVars, alwaysOnTop, osRefuses>>

\* A variant that reports success when the window is missing.
AlwaysOnTopResult_MissingOk(exists, refused) ==
    IF exists /\ refused THEN "Err(Failed to set always on top)" ELSE "Ok"

\* Lines 276-285: the value set_always_on_top returns.
AlwaysOnTopResult(exists, refused) ==
    IF ~exists THEN "Err(Main window not found)"
    ELSE IF refused THEN "Err(Failed to set always on top)"
    ELSE "Ok"

\* Lines 276-285.
set_always_on_top(enabled) ==
    /\ nCmds < MaxCmds
    /\ nCmds' = nCmds + 1
    /\ IF windowExists
         THEN /\ alwaysOnTop' = IF osRefuses THEN alwaysOnTop ELSE enabled
              /\ lastCmd' = Cmd("set_always_on_top", enabled,
                                AlwaysOnTopResult(windowExists, osRefuses),
                                <<Call("set_always_on_top", OkErr(~osRefuses), BoolStr(enabled))>>)
         ELSE /\ alwaysOnTop' = alwaysOnTop
              /\ lastCmd' = Cmd("set_always_on_top", enabled,
                                AlwaysOnTopResult(windowExists, osRefuses), <<>>)
    /\ UNCHANGED <<buildVars, winVars, regVars, handlerVars, activationPolicy,
                   skipTaskbar, osRefuses>>

\* The OS starts or stops rejecting the chrome calls.
OsRefusalChanges ==
    /\ osRefuses' = ~osRefuses
    /\ UNCHANGED <<buildVars, winVars, regVars, handlerVars, activationPolicy,
                   skipTaskbar, alwaysOnTop, lastCmd, nCmds>>

Handlers(p) ==
    \/ handle_toggle_window(p)
    \/ handle_audio_shortcut(p)
    \/ handle_screenshot_shortcut(p)
    \/ handle_system_audio_shortcut(p)
    \/ HandlerReturn(p)

Environment == DestroyWindow \/ ListenerApplyVisibility

Commands == check_shortcuts_registered \/ CommandReturn

Next ==
    \/ setup_global_shortcuts
    \/ Commands
    \/ \E p \in Procs : \E k \in AllShortcuts : \E st \in ShortcutStates : KeyEvent(p, k, st)
    \/ \E p \in Procs : Handlers(p)
    \/ Environment

Spec == Init /\ [][Next]_vars

\* Key events are handled one after another.
NextSeq ==
    \/ setup_global_shortcuts
    \/ Commands
    \/ Idle /\ \E p \in Procs : \E k \in AllShortcuts : \E st \in ShortcutStates : KeyEvent(p, k, st)
    \/ \E p \in Procs : Handlers(p)
    \/ Environment

SpecSeq == Init /\ [][NextSeq]_vars

\* check_shortcuts_registered over every registration state the OS service can report.
InitCheck ==
    /\ platform \in Platforms
    /\ badParse \in 0..NumShortcuts
    /\ windowExists = TRUE
    /\ osVisible = TRUE
    /\ is_hidden = FALSE
    /\ lockHolder = 0
    /\ handlers = {}
    /\ registered \in SUBSET AllShortcuts
    /\ setupPc = 0
    /\ setupResult = "none"
    /\ checkResult = "none"
    /\ pc = [p \in Procs |-> "idle"]
    /\ kind = [p \in Procs |-> "none"]
    /\ calls = [p \in Procs |-> <<>>]
    /\ visibilityEvents = <<>>
    /\ applied = 0
    /\ nEvents = 0
    /\ lastEvent = "none"
    /\ clean = TRUE
    /\ activationPolicy = "Regular"
    /\ skipTaskbar = FALSE
    /\ alwaysOnTop = FALSE
    /\ osRefuses = FALSE
    /\ lastCmd = NoCmd
    /\ nCmds = 0

NextCheck == check_shortcuts_registered \/ CommandReturn

SpecCheck == InitCheck /\ [][NextCheck]_vars

\* The chrome commands, called in any order and with any argument, with the
\* window present or destroyed and the OS accepting or refusing.
NextChrome ==
    \/ \E visible \in BOOLEAN : set_app_icon_visibility(visible)
    \/ \E enabled \in BOOLEAN : set_always_on_top(enabled)
    \/ DestroyWindow
    \/ OsRefusalChanges

SpecChrome == Init /\ [][NextChrome]_vars

(***************************************************************************)
(* Properties                                                               *)
(***************************************************************************)
AtEnd(p, k) == pc[p] = "end" /\ kind[p] = k
OpsOf(p) == [i \in DOMAIN calls[p] |-> calls[p][i].op]
Emits(p) == \E i \in DOMAIN calls[p] : calls[p][i].op = "emit"
AudioKinds == {"audio", "systemAudio"}
AudioEvent(k) == IF k = "audio" THEN "start-audio-recording" ELSE "toggle-system-audio"
\* p's first call was the visibility query, made while the window existed and
\* was not visible.
HiddenAtQuery(p) ==
    /\ calls[p] # <<>>
    /\ calls[p][1].op = "is_visible"
    /\ calls[p][1].arg = "false"

\* C1: on the Windows build, while the main window exists, exactly one of
\* {the window is OS-visible, WindowVisibility.is_hidden} holds in every
\* reachable state.
C1_VisibleXorHidden ==
    (platform = "windows" /\ windowExists) => (osVisible # is_hidden)

\* C2: on the Windows build, a toggle press handled with the main window
\* present has, when it returns, flipped is_hidden exactly once and emitted
\* exactly one toggle-window-visibility event, whose payload is the negation
\* of the value the flag had before the flip; it made no visibility query.
C2_ToggleFlipsOnceEmitsNegation ==
    \A p \in Procs :
        (platform = "windows" /\ AtEnd(p, "toggle") /\ calls[p] # <<>>) =>
            LET before == calls[p][2].res = "true" IN
            /\ OpsOf(p) = <<"lock", "flip", "emit">>
            /\ calls[p][3] = Call("emit", "toggle-window-visibility", BoolStr(~before))
            /\ is_hidden = ~before
            /\ Last(visibilityEvents) = BoolStr(~before)

\* A second toggle press on Windows has returned: the flag was true before it.
C2_Witness ==
    \E p \in Procs :
        /\ platform = "windows" /\ AtEnd(p, "toggle")
        /\ Len(calls[p]) = 3 /\ calls[p][2].res = "true"
        /\ Len(visibilityEvents) = 2

\* C3: on a non-Windows build, after n toggle presses handled one after another
\* on the existing window with every call succeeding, starting from a visible
\* window, the window is visible iff n is even.
C3_ToggleParity ==
    (platform # "windows" /\ clean /\ Idle) => (osVisible <=> (nEvents % 2 = 0))

\* Two successful toggle presses have been handled and the window is visible again.
C3_Witness ==
    platform # "windows" /\ clean /\ Idle /\ nEvents = 2 /\ osVisible

\* C4 as stated: a StartAudio / ToggleSystemAudio press handled on a hidden
\* window emits its event only after a successful show and a successful focus.
C4_ShownAndFocusedBeforeEmit ==
    \A p \in Procs :
        (kind[p] \in AudioKinds /\ HiddenAtQuery(p) /\ Emits(p)) =>
            \E i, j, k \in DOMAIN calls[p] :
                /\ i < k /\ j < k
                /\ calls[p][i] = Call("show", "Ok", "")
                /\ calls[p][j] = Call("set_focus", "Ok", "")
                /\ calls[p][k].op = "emit"

\* C4 amended: for such a press, when the visibility query reported the window
\* not visible, the event is emitted only after a successful show followed by a
\* focus attempt (which may have failed); when the query itself failed, the
\* event is emitted with no show and no focus call before it.
C4_ShownAndFocusAttemptedBeforeEmit ==
    \A p \in Procs :
        (kind[p] \in AudioKinds /\ HiddenAtQuery(p) /\ Emits(p)) =>
            IF calls[p][1].res = "Ok(false)"
              THEN /\ OpsOf(p) = <<"is_visible", "show", "set_focus", "emit">>
                   /\ calls[p][2].res = "Ok"
                   /\ calls[p][4].res = AudioEvent(kind[p])
              ELSE /\ OpsOf(p) = <<"is_visible", "emit">>
                   /\ calls[p][1].res = "Err"
                   /\ calls[p][2].res = AudioEvent(kind[p])

\* A StartAudio press found the window hidden, showed it, failed to focus it and emitted.
C4_Witness ==
    \E p \in Procs :
        /\ AtEnd(p, "audio") /\ HiddenAtQuery(p) /\ Len(calls[p]) = 4
        /\ calls[p][2] = Call("show", "Ok", "")
        /\ calls[p][3] = Call("set_focus", "Err", "")
        /\ calls[p][4].op = "emit"

\* C5: in the StartAudio and ToggleSystemAudio handlers a failed show is the
\* last call of the press: no focus call and no emit follow it.
C5_ShowFailureAborts ==
    \A p \in Procs :
        kind[p] \in AudioKinds =>
            \A i \in DOMAIN calls[p] :
                (calls[p][i].op = "show" /\ calls[p][i].res = "Err") =>
                    (i = Len(calls[p]) /\ pc[p] = "end")

\* A ToggleSystemAudio press on a hidden, existing window whose show failed.
C5_Witness ==
    \E p \in Procs :
        /\ AtEnd(p, "systemAudio") /\ windowExists /\ ~osVisible
        /\ calls[p] = <<Call("is_visible", "Ok(false)", "false"), Call("show", "Err", "")>>

\* C6: every step of a Screenshot press (its dispatch, its emit, its return)
\* leaves the window's existence, its OS visibility and is_hidden unchanged,
\* and the press makes no call but at most one emit of trigger-screenshot.
C6_ScreenshotKeepsVisibility ==
    [][\A p \in Procs :
         ((kind[p] = "screenshot" \/ kind'[p] = "screenshot") /\ pc'[p] # pc[p]) =>
             /\ UNCHANGED <<windowExists, osVisible, is_hidden, lockHolder>>
             /\ calls'[p] \in {<<>>, <<Call("emit", "trigger-screenshot", "{}")>>}]_vars

\* A Screenshot press on a hidden window has emitted, the window is still hidden.
C6_Witness ==
    \E p \in Procs :
        /\ AtEnd(p, "screenshot") /\ windowExists /\ ~osVisible
        /\ calls[p] = <<Call("emit", "trigger-screenshot", "{}")>>

\* C7: a toggle press dispatched while the main window does not exist goes
\* straight to its return having made no call, and neither the dispatch nor
\* the return changes is_hidden, the lock, the emitted events or the window.
C7_ToggleNoWindowNoOp ==
    [][\A p \in Procs :
         /\ (pc[p] = "idle" /\ pc'[p] # "idle" /\ kind'[p] = "toggle" /\ ~windowExists) =>
                /\ pc'[p] = "end" /\ calls'[p] = <<>>
                /\ UNCHANGED <<is_hidden, lockHolder, visibilityEvents, winVars>>
         /\ (AtEnd(p, "toggle") /\ calls[p] = <<>> /\ pc'[p] # pc[p]) =>
                /\ pc'[p] = "idle"
                /\ UNCHANGED <<is_hidden, lockHolder, visibilityEvents, winVars>>]_vars

\* A toggle press arrived with no window and is about to return, on each kind of build.
C7_Witness ==
    \E p \in Procs :
        /\ ~windowExists /\ AtEnd(p, "toggle") /\ calls[p] = <<>>
        /\ platform = "windows"

\* C8: when all four strings parse, a call of check_shortcuts_registered
\* returns Ok(true) if all four chords are registered and Ok(false) otherwise,
\* and leaves the registrations as they were.
C8_CheckTrueIffAllRegistered ==
    [][(checkResult = "none" /\ checkResult' # "none" /\ badParse = 0) =>
          /\ checkResult' = IF registered = AllShortcuts THEN "Ok(true)" ELSE "Ok(false)"
          /\ registered' = registered]_vars

\* The check answered Ok(false) with only the last chord unregistered.
C8_Witness ==
    /\ badParse = 0 /\ checkResult = "Ok(false)"
    /\ registered = AllShortcuts \ {"systemAudio"}

\* C9: a call of check_shortcuts_registered made after setup_global_shortcuts
\* returned Ok(()) returns Ok(true), and all four chords are registered then.
C9_SetupOkThenCheckTrue ==
    [][(setupResult = "Ok" /\ checkResult = "none" /\ checkResult' # "none") =>
          (checkResult' = "Ok(true)" /\ registered = AllShortcuts)]_vars

\* Setup returned Ok and the check that followed returned Ok(true).
C9_Witness ==
    setupResult = "Ok" /\ checkResult = "Ok(true)"

\* C10: while a toggle handler is at its emit of toggle-window-visibility it
\* does not hold the lock of is_hidden.
C10_LockReleasedBeforeEmit ==
    \A p \in Procs :
        (kind[p] = "toggle" /\ pc[p] = "emit" /\ platform = "windows") => lockHolder # p

\* A chrome command has just returned.
ChromeReturn(name) == nCmds' = nCmds + 1 /\ lastCmd'.name = name

\* The observable chrome state.
ChromeState == <<activationPolicy, skipTaskbar, alwaysOnTop>>

(***************************************************************************)
(* C11: set_always_on_top(enabled), for either value of enabled, returns   *)
(* an error and makes no OS call when the main window does not exist; when *)
(* the window exists it makes exactly one set_always_on_top call on it,    *)
(* with the given value, and returns an error only if that call fails.     *)
(***************************************************************************)
C11_AlwaysOnTopOneCallOrMissingError ==
    [][ChromeReturn("set_always_on_top") =>
          IF windowExists
            THEN /\ Len(lastCmd'.calls) = 1
                 /\ lastCmd'.calls[1].op = "set_always_on_top"
                 /\ lastCmd'.calls[1].arg = BoolStr(lastCmd'.arg)
                 /\ (lastCmd'.result # "Ok") <=> (lastCmd'.calls[1].res = "Err")
                 /\ (lastCmd'.result = "Ok") => alwaysOnTop' = lastCmd'.arg
            ELSE /\ lastCmd'.result = "Err(Main window not found)"
                 /\ lastCmd'.calls = <<>>
                 /\ ChromeState' = ChromeState]_vars

C11_Witness ==
    /\ ~windowExists
    /\ lastCmd.name = "set_always_on_top" /\ lastCmd.arg = TRUE
    /\ lastCmd.result = "Err(Main window not found)" /\ alwaysOnTop = FALSE

(***************************************************************************)
(* C12: set_app_icon_visibility and set_always_on_top are idempotent: when *)
(* a call with value v succeeded and the same setter is called again with  *)
(* v, the window and the OS being as they were at the first call, the      *)
(* second call leaves the activation policy, the skip-taskbar flag and the *)
(* always-on-top flag as the first call left them and returns no error.    *)
(***************************************************************************)
C12_SettersIdempotent ==
    [][(/\ ChromeReturn(lastCmd.name)
        /\ lastCmd'.arg = lastCmd.arg
        /\ lastCmd.result = "Ok"
        /\ lastCmd'.exists = lastCmd.exists
        /\ lastCmd'.refused = lastCmd.refused)
          => (lastCmd'.result = "Ok" /\ ChromeState' = ChromeState)]_vars

C12_Witness ==
    /\ windowExists /\ platform = "linux"
    /\ lastCmd.name = "set_app_icon_visibility" /\ lastCmd.arg = FALSE
    /\ lastCmd.prev = <<"set_app_icon_visibility", FALSE, "Ok">>
    /\ lastCmd.result = "Ok" /\ skipTaskbar /\ alwaysOnTop

(***************************************************************************)
(* C13: if one of the four chord strings does not parse, setup returns an  *)
(* error and leaves no partial registration: no handler has been attached  *)
(* and no combination has been registered when the error is returned, nor  *)
(* at any other moment.                                                    *)
(***************************************************************************)
C13_ParseFailureRegistersNothing ==
    badParse # 0 =>
        /\ setupResult \in {"none", "parse error"}
        /\ setupPc = 0
        /\ handlers = {} /\ registered = {}

C13_Witness ==
    badParse = 3 /\ setupResult = "parse error" /\ handlers = {} /\ registered = {}

\* The first k combinations, in the order of registration.
FirstShortcuts(k) == {Shortcuts[i] : i \in 1..k}

\* The registration that failed, 0 when none did.
FailedRegistration ==
    IF setupPc > NumShortcuts /\ setupResult \notin {"none", "Ok"}
      THEN setupPc - NumShortcuts ELSE 0

C15_OnlyPressedDispatches ==
    [][(nEvents' = nEvents + 1 /\ lastEvent' # "Pressed")
          => UNCHANGED <<winVars, is_hidden, lockHolder, procVars, visibilityEvents,
                         chromeVars, regVars>>]_vars

C15_Witness ==
    /\ platform = "linux" /\ nEvents = 2 /\ lastEvent = "Released"
    /\ Idle /\ windowExists /\ ~osVisible

\* p's visibility query, its first call, failed.
QueryFailed(p) == calls[p] # <<>> /\ calls[p][1].op = "is_visible" /\ calls[p][1].res = "Err"

(***************************************************************************)
(* C16: on a non-Windows build, when the visibility query of a toggle      *)
(* press fails, the handler goes straight to its return: it makes no show, *)
(* hide or focus call and emits no focus-text-input, and neither the       *)
(* failing query nor the return changes the window's visibility or the     *)
(* tracked flag.                                                           *)
(***************************************************************************)
C16_ToggleQueryFailureAbandons ==
    [][\A p \in Procs :
         /\ (kind[p] = "toggle" /\ pc[p] = "query" /\ pc'[p] # "query" /\ QueryFailed(p)') =>
                /\ pc'[p] = "end" /\ OpsOf(p)' = <<"is_visible">>
                /\ UNCHANGED <<winVars, is_hidden, lockHolder, visibilityEvents>>
         /\ (AtEnd(p, "toggle") /\ QueryFailed(p) /\ pc'[p] # pc[p]) =>
                /\ pc'[p] = "idle" /\ OpsOf(p) = <<"is_visible">>
                /\ UNCHANGED <<winVars, is_hidden, lockHolder, visibilityEvents>>]_vars

\* A toggle press whose query failed on a visible, existing window is about to return.
C16_Witness ==
    \E p \in Procs :
        /\ platform = "macos" /\ AtEnd(p, "toggle") /\ QueryFailed(p)
        /\ windowExists /\ osVisible /\ calls[p][1].arg = "true"

(***************************************************************************)
(* C17: for a StartAudio or ToggleSystemAudio press, when the visibility   *)
(* query fails the action is abandoned: the press makes no show or focus   *)
(* call and emits no start-audio-recording / toggle-system-audio.          *)
(***************************************************************************)
C17_AudioQueryFailureAbandons ==
    \A p \in Procs :
        (kind[p] \in AudioKinds /\ QueryFailed(p)) => OpsOf(p) = <<"is_visible">>

(***************************************************************************)
(* C18: on a non-Windows build, two toggle presses on the existing,        *)
(* visible window, with every OS call succeeding and their handlers        *)
(* running concurrently, leave the window visible, as it started, under    *)
(* every interleaving of the handlers' steps.                              *)
(***************************************************************************)
C18_ConcurrentTogglesRestoreVisibility ==
    (platform # "windows" /\ nEvents = 2 /\ clean /\ Idle) => (windowExists /\ osVisible)

\* The emits of focus-text-input among p's calls.
FocusEmits(p) ==
    {i \in DOMAIN calls[p] : calls[p][i].op = "emit" /\ calls[p][i].res = "focus-text-input"}

(***************************************************************************)
(* C19: on a non-Windows build, focus-text-input is emitted only by a      *)
(* toggle press whose query reported the window not visible, as its fourth *)
(* call after its show and its set_focus, and such a press emits it also   *)
(* when show or set_focus failed; a toggle press that saw the window       *)
(* visible and the presses of the other three hotkeys never emit it.       *)
(***************************************************************************)
C19_FocusTextInputOnlyAfterShowAndFocus ==
    \A p \in Procs :
        /\ FocusEmits(p) # {} =>
               /\ kind[p] = "toggle" /\ platform # "windows"
               /\ FocusEmits(p) = {4}
               /\ OpsOf(p) = <<"is_visible", "show", "set_focus", "emit">>
               /\ calls[p][1].res = "Ok(false)"
        /\ (platform # "windows" /\ AtEnd(p, "toggle") /\ calls[p] # <<>>
               /\ calls[p][1].res = "Ok(false)") => FocusEmits(p) = {4}

\* A toggle press that saw the window hidden emitted although show and set_focus failed.
C19_Witness ==
    \E p \in Procs :
        /\ platform = "linux" /\ AtEnd(p, "toggle") /\ FocusEmits(p) = {4}
        /\ calls[p][2] = Call("show", "Err", "") /\ calls[p][3] = Call("set_focus", "Err", "")

(***************************************************************************)
(* C20: on a Windows build, with toggle presses handled concurrently, no   *)
(* flip is lost and the notifications come in the order of the flips: the  *)
(* payloads of toggle-window-visibility alternate, starting with the       *)
(* negation of the initial flag; whenever the Mutex is free the flag is    *)
(* the last payload emitted; and after n toggle presses on the existing    *)
(* window have completed the flag has its initial value iff n is even.     *)
(***************************************************************************)
C20_FlipsNotLostEmitsInOrder ==
    platform = "windows" =>
        /\ \A i \in DOMAIN visibilityEvents : visibilityEvents[i] = BoolStr(i % 2 = 1)
        /\ lockHolder = 0 => (is_hidden <=> (Len(visibilityEvents) % 2 = 1))
        /\ (clean /\ Idle) =>
               /\ Len(visibilityEvents) = nEvents
               /\ ~is_hidden <=> (nEvents % 2 = 0)

\* One toggle press has flipped and emitted and still holds the Mutex while a
\* second one waits for it.
C20_Witness ==
    /\ platform = "windows" /\ clean /\ nEvents = 2
    /\ \E p, q \in Procs :
          /\ lockHolder = p /\ pc[p] = "end" /\ pc[q] = "lock"
          /\ visibilityEvents = <<"true">> /\ is_hidden
====
